---- MODULE Spec2Model ----
(***************************************************************************)
(* Model of app.py: the WhatsApp quotation bot.  A POST to /webhook that   *)
(* carries a text message runs the pipeline                                *)
(*   parse_command_with_ai -> create_quotation_from_template               *)
(*   -> send_email_with_attachment -> send_whatsapp_reply.                 *)
(* Requests are handled by independent handler invocations that share the  *)
(* module globals (environment configuration) and the /tmp directory.      *)
(*                                                                         *)
(* Python strings are sequences of one-character strings.  None is the     *)
(* empty sequence and a value v that is not None is <<v>>.                 *)
(***************************************************************************)
EXTENDS Integers, Sequences, FiniteSets, TLC

\* ------------------------------------------------------------------------
\* Bounds of the model
\* ------------------------------------------------------------------------

\* Number of webhook POSTs whose handling may overlap.
NumRequests == 2

Requests == 1..NumRequests

\* ------------------------------------------------------------------------
\* Characters and strings
\* ------------------------------------------------------------------------

Digits == {"0", "1", "2", "3", "4", "5", "6", "7", "8", "9"}

Letters ==
  {"a", "b", "c", "d", "e", "f", "g", "h", "i", "j", "k", "l", "m",
   "n", "o", "p", "q", "r", "s", "t", "u", "v", "w", "x", "y", "z",
   "A", "B", "C", "D", "E", "F", "G", "H", "I", "J", "K", "L", "M",
   "N", "O", "P", "Q", "R", "S", "T", "U", "V", "W", "X", "Y", "Z"}

\* str.isspace for the characters of the model
Whitespace == {" ", "\t", "\n", "\r"}

\* U+20B9, the currency sign of the format strings
RupeeSign == "Rs"

None == <<>>

Some(v) == <<v>>

\* str.strip() of s is empty
IsBlank(s) == \A i \in 1..Len(s) : s[i] \in Whitespace

IsDigit(c) == c \in Digits

IsRateChar(c) == c \in Digits \cup {"."}

DigitVal(c) ==
  CASE c = "0" -> 0 [] c = "1" -> 1 [] c = "2" -> 2 [] c = "3" -> 3
    [] c = "4" -> 4 [] c = "5" -> 5 [] c = "6" -> 6 [] c = "7" -> 7
    [] c = "8" -> 8 [] c = "9" -> 9

DigitChar(d) ==
  CASE d = 0 -> "0" [] d = 1 -> "1" [] d = 2 -> "2" [] d = 3 -> "3"
    [] d = 4 -> "4" [] d = 5 -> "5" [] d = 6 -> "6" [] d = 7 -> "7"
    [] d = 8 -> "8" [] d = 9 -> "9"

RECURSIVE DigitsToNat(_)
\* int() of a non-empty string of decimal digits
DigitsToNat(s) ==
  IF s = <<>> THEN 0
  ELSE 10 * DigitsToNat(SubSeq(s, 1, Len(s) - 1)) + DigitVal(s[Len(s)])

RECURSIVE NatToDigits(_)
\* str() of a natural number
NatToDigits(n) ==
  IF n < 10 THEN <<DigitChar(n)>>
  ELSE NatToDigits(n \div 10) \o <<DigitChar(n % 10)>>

RECURSIVE Pow10(_)
Pow10(k) == IF k = 0 THEN 1 ELSE 10 * Pow10(k - 1)

RECURSIVE CountChar(_, _)
CountChar(s, c) ==
  IF s = <<>> THEN 0
  ELSE (IF Head(s) = c THEN 1 ELSE 0) + CountChar(Tail(s), c)

RECURSIVE IndexOf(_, _)
\* position of the first c in s, 0 when there is none
IndexOf(s, c) ==
  IF s = <<>> THEN 0
  ELSE IF Head(s) = c THEN 1
  ELSE LET k == IndexOf(Tail(s), c) IN IF k = 0 THEN 0 ELSE k + 1

\* ------------------------------------------------------------------------
\* Module globals read from the environment (lines 24-61)
\* ------------------------------------------------------------------------

\* datetime.date.today(), the same calendar day for every request modelled
Today == <<"2", "0", "2", "5", "-", "0", "1", "-", "0", "1">>

\* today_str, the long form of the same day
TodayStr == <<"J", "a", "n", "u", "a", "r", "y", " ", "0", "1", ",", " ",
              "2", "0", "2", "5">>

\* ------------------------------------------------------------------------
\* parse_command_with_ai (lines 105-178)
\* ------------------------------------------------------------------------

Keys == {"q_no", "date", "company_name", "customer_name", "product",
         "quantity", "rate", "units", "hsn", "email"}

required == <<"customer_name", "product", "quantity", "rate", "email">>

\* data.setdefault(k, "") for the ten keys
SetDefaults(data) ==
  [k \in Keys \cup DOMAIN data |-> IF k \in DOMAIN data THEN data[k] ELSE <<>>]

\* the required-field loop: TRUE when some required field is blank
MissingRequired_SkipsEmail(data) ==
  \E i \in 1..(Len(required) - 1) : IsBlank(data[required[i]])

MissingRequired(data) ==
  \E i \in 1..Len(required) : IsBlank(data[required[i]])

\* re.sub(r"[^\d]", "", s)
OnlyDigits(s) == SelectSeq(s, IsDigit)

\* re.sub(r"[^\d.]", "", s)
OnlyRateChars(s) == SelectSeq(s, IsRateChar)

\* int(...) raises ValueError on the empty string
QuantityParses(s) == OnlyDigits(s) # <<>>

QtyNum(s) == DigitsToNat(OnlyDigits(s))

\* float(...) accepts digits with at most one point and at least one digit
RateParses(s) ==
  LET t == OnlyRateChars(s)
  IN  /\ CountChar(t, ".") <= 1
      /\ OnlyDigits(t) # <<>>

\* rate_num as an exact decimal: mant / 10^dec
RateNum(s) ==
  LET t == OnlyRateChars(s)
      k == IndexOf(t, ".")
  IN  [mant |-> DigitsToNat(OnlyDigits(t)),
       dec  |-> IF k = 0 THEN 0 ELSE Len(t) - k]

\* The number of cents that the format spec .2f prints for mant / 10^dec.
\* A value exactly between two cents is printed as its binary expansion
\* falls; the even cent is taken here.
RoundCents(mant, dec) ==
  IF dec <= 2 THEN mant * Pow10(2 - dec)
  ELSE LET p == Pow10(dec - 2)
           q == mant \div p
           r == mant % p
       IN  IF 2 * r > p THEN q + 1
           ELSE IF 2 * r < p THEN q
           ELSE IF q % 2 = 0 THEN q ELSE q + 1

TwoDigits(n) == <<DigitChar(n \div 10), DigitChar(n % 10)>>

ThreeDigits(n) ==
  <<DigitChar(n \div 100), DigitChar((n \div 10) % 10), DigitChar(n % 10)>>

RECURSIVE Grouped_DotSeparator(_)
Grouped_DotSeparator(n) ==
  IF n < 1000 THEN NatToDigits(n)
  ELSE Grouped_DotSeparator(n \div 1000) \o <<".">> \o ThreeDigits(n % 1000)

RECURSIVE Grouped(_)
\* the integer part with thousands separators
Grouped(n) ==
  IF n < 1000 THEN NatToDigits(n)
  ELSE Grouped(n \div 1000) \o <<",">> \o ThreeDigits(n % 1000)

\* f"{x:.2f}" for x of the given number of cents
Fmt2f(cents) == NatToDigits(cents \div 100) \o <<".">> \o TwoDigits(cents % 100)

\* f"{x:,.2f}" with the currency sign in front
FmtMoney(cents) ==
  <<RupeeSign>> \o Grouped(cents \div 100) \o <<".">> \o TwoDigits(cents % 100)

\* lines 150-174: numbers cleaned, display strings and defaults filled in
Normalized(data) ==
  LET qty_num  == QtyNum(data["quantity"])
      rate_num == RateNum(data["rate"])
  IN  [k \in DOMAIN data \cup {"rate_formatted", "total"} |->
         CASE k = "quantity" -> NatToDigits(qty_num)
           [] k = "rate" -> Fmt2f(RoundCents(rate_num.mant, rate_num.dec))
           [] k = "rate_formatted" ->
                FmtMoney(RoundCents(rate_num.mant, rate_num.dec))
           [] k = "total" ->
                FmtMoney(RoundCents(qty_num * rate_num.mant, rate_num.dec))
           [] k = "date" -> IF data["date"] = <<>> THEN TodayStr ELSE data["date"]
           [] k = "units" ->
                IF data["units"] = <<>> THEN <<"N", "o", "s">> ELSE data["units"]
           [] OTHER -> data[k]]

\* What parse_command_with_ai returns: None or the normalized dict.
\* resp.kind is "error" when generate_content raised, "unparseable" when
\* the cleaned text is not a JSON object, "json" when json.loads gave
\* resp.data.
parse_command_with_ai(model, resp) ==
  IF ~model THEN None
  ELSE IF resp.kind # "json" THEN None
  ELSE LET data == SetDefaults(resp.data)
       IN  IF MissingRequired(data) THEN None
           ELSE IF ~QuantityParses(data["quantity"]) THEN None
           ELSE IF ~RateParses(data["rate"]) THEN None
           ELSE Some(Normalized(data))

\* ------------------------------------------------------------------------
\* create_quotation_from_template (lines 181-203)
\* ------------------------------------------------------------------------

IsSafeChar(c) == c \in Letters \cup Digits \cup {" ", "_", "-"}

RECURSIVE RStrip(_)
\* str.rstrip()
RStrip(s) ==
  IF s = <<>> THEN <<>>
  ELSE IF s[Len(s)] \in Whitespace THEN RStrip(SubSeq(s, 1, Len(s) - 1))
  ELSE s

\* line 193
safe_name(customer_name) ==
  LET kept == RStrip(SelectSeq(customer_name, IsSafeChar))
  IN  IF kept = <<>> THEN <<"C", "u", "s", "t", "o", "m", "e", "r">> ELSE kept

\* lines 194-195: /tmp/Quotation_<safe_name>_<date>.docx
out_path(ctx) ==
  <<"/tmp/", "Quotation_">> \o safe_name(ctx["customer_name"]) \o <<"_">>
    \o Today \o <<".docx">>

\* What doc.save leaves at out_path: the template rendered with ctx by the
\* handler of request r.
Document(r, ctx, complete) == [owner |-> r, ctx |-> ctx, complete |-> complete]

\* The ways one call can go: the template does not load (186-189), render
\* raises (192), save raises before or after it has created the file (196),
\* or the file is saved.
RenderOutcomes ==
  {"template_error", "render_error", "save_error", "save_partial", "saved"}

\* the value returned
RenderResult(ctx, outcome) ==
  IF outcome = "saved" THEN Some(out_path(ctx)) ELSE None

\* /tmp after the call
RenderFiles_CreatesFileFirst(files, r, ctx, outcome) ==
  [p \in DOMAIN files \cup {out_path(ctx)} |->
     IF p = out_path(ctx) THEN Document(r, ctx, outcome = "saved")
     ELSE files[p]]

RenderFiles(files, r, ctx, outcome) ==
  IF outcome \in {"saved", "save_partial"}
  THEN [p \in DOMAIN files \cup {out_path(ctx)} |->
          IF p = out_path(ctx) THEN Document(r, ctx, outcome = "saved")
          ELSE files[p]]
  ELSE files

\* ------------------------------------------------------------------------
\* send_email_with_attachment (lines 206-269)
\* ------------------------------------------------------------------------

\* EmailMessage.__setitem__ raises ValueError for a header value of more
\* than one line, len(value.splitlines()) > 1 (lines 220-221 are outside
\* every try block): a line break that is not the end of the value
HasLineBreak(s) ==
  \E i \in 1..(Len(s) - 1) :
    /\ s[i] \in {"\n", "\r"}
    /\ ~(s[i] = "\r" /\ s[i + 1] = "\n" /\ i + 1 = Len(s))

\* line 339: the subject carries q_no
HeadersRaise(ctx) == HasLineBreak(ctx["email"]) \/ HasLineBreak(ctx["q_no"])

\* os.remove(attachment_path), errors ignored (264-269)
Removed(files, path) == [p \in DOMAIN files \ {path} |-> files[p]]

\* ------------------------------------------------------------------------
\* What the Gemini call can answer (line 134)
\* ------------------------------------------------------------------------

Raju == <<"R", "a", "j", "u">>

Ravi == <<"R", "a", "v", "i">>

Pipe == <<"p", "i", "p", "e">>

Sheet == <<"s", "h", "e", "e", "t">>

RajuMail == <<"r", "a", "j", "u", "@", "e", "x", ".", "c", "o", "m">>

\* a JSON object with every key filled in well
BaseData ==
  [q_no |-> <<"7">>, date |-> <<>>, company_name |-> <<>>,
   customer_name |-> Raju, product |-> Pipe, quantity |-> <<"5">>,
   rate |-> <<"6", "0", "0">>, units |-> <<"P", "c", "s">>, hsn |-> <<>>,
   email |-> RajuMail]

JsonObjects ==
  { BaseData,
    [BaseData EXCEPT !.product = Sheet],
    [BaseData EXCEPT !.customer_name = Ravi, !.units = <<>>],
    [BaseData EXCEPT !.customer_name = <<" ">>],
    [BaseData EXCEPT !.product = <<>>],
    [BaseData EXCEPT !.quantity = <<>>],
    [BaseData EXCEPT !.quantity = <<"0">>],
    [BaseData EXCEPT !.quantity = <<"P", "c", "s">>],
    [BaseData EXCEPT !.rate = <<>>],
    [BaseData EXCEPT !.rate = <<"1", ".", "2", ".", "3">>],
    [BaseData EXCEPT !.rate = <<"2", "5", ",", "0", "0", "0", ".", "5">>],
    [BaseData EXCEPT !.email = <<>>],
    [BaseData EXCEPT !.email = <<"r", "a", "j", "u", ".", "e", "x">>],
    [BaseData EXCEPT !.email = <<"a", "@", "b", ".", "c", "\n", "x">>],
    [BaseData EXCEPT !.q_no = <<"7", "\n", "8">>],
    [k \in Keys \ {"email"} |-> BaseData[k]] }

AIResponses ==
  { [kind |-> "error", data |-> <<>>],
    [kind |-> "unparseable", data |-> <<>>] }
  \cup { [kind |-> "json", data |-> d] : d \in JsonObjects }

\* before the call, and when GEMINI_MODEL is None and no call is made
NoResponse == [kind |-> "none", data |-> <<>>]

\* the service never answers: generate_content is called without a timeout
\* (line 134) and does not return
Silent == [kind |-> "silent", data |-> <<>>]

\* ------------------------------------------------------------------------
\* send_whatsapp_reply (lines 67-93) and the texts the webhook sends
\* ------------------------------------------------------------------------

\* lines 327-328
GuidanceText == [kind |-> "guidance", product |-> <<>>, email |-> <<>>]

\* line 335
RenderErrorText == [kind |-> "render_error", product |-> <<>>, email |-> <<>>]

\* line 356
SuccessText(ctx) ==
  [kind |-> "success", product |-> ctx["product"], email |-> ctx["email"]]

\* lines 361-362
EmailFailedText(ctx) ==
  [kind |-> "email_failed", product |-> <<>>, email |-> ctx["email"]]

\* One call: nothing is posted without the Meta credentials (69-71);
\* otherwise the POST to the Graph API goes through or raises, and the
\* exception is swallowed (84-93).
ReplyCalls(creds, text) ==
  IF ~creds THEN {[text |-> text, posted |-> FALSE]}
  ELSE {[text |-> text, posted |-> b] : b \in BOOLEAN}

\* ------------------------------------------------------------------------
\* The HTTP requests /webhook receives (lines 284-316, 367-374)
\* ------------------------------------------------------------------------

\* the verify token of the deployment
TokA == <<"t", "o", "k", "A">>

\* another token
TokB == <<"t", "o", "k", "B">>

\* line 29: None when neither variable is set (or both are empty)
VerifyTokens == {None, Some(TokA)}

\* no request yet
NoRequest ==
  [method |-> "none", payload |-> "none", mode |-> None, token |-> None,
   challenge |-> None]

\* a POST; payload says what request.json holds
PostRequest(payload) ==
  [method |-> "POST", payload |-> payload, mode |-> None, token |-> None,
   challenge |-> None]

\* a GET with the three query arguments, each None when absent
GetRequest(mode, token, challenge) ==
  [method |-> "GET", payload |-> "none", mode |-> mode, token |-> token,
   challenge |-> challenge]

\* ------------------------------------------------------------------------
\* State
\* ------------------------------------------------------------------------

VARIABLES
  geminiModel,  \* GEMINI_MODEL is not None
  zohoCreds,    \* ZOHO_EMAIL and ZOHO_APP_PASSWORD are both set
  metaCreds,    \* META_ACCESS_TOKEN and PHONE_NUMBER_ID are both set
  tmpFiles,     \* the files of /tmp: path -> Document
  pc,           \* per request: where its handler is
  aiResp,       \* per request: what generate_content answered
  context,      \* per request: the local context of webhook
  docFile,      \* per request: the local doc_file of webhook
  attached,     \* per request: the data added to msg as attachment
  smtpLog,      \* per request: the SMTP sessions opened, in order
  sendOk,       \* per request: the local ok of webhook
  replies,      \* per request: the calls of send_whatsapp_reply, in order
  stageLog,     \* per request: the stage functions entered, in order
  httpStatus,   \* per request: the status of the HTTP response, 0 before
  verifyToken,  \* META_VERIFY_TOKEN: None or the configured string
  inbound,      \* per request: the HTTP request that was received
  httpBody,     \* per request: the body of the HTTP response
  renderOutcome \* per request: how create_quotation_from_template went

vars == <<geminiModel, zohoCreds, metaCreds, tmpFiles, pc, aiResp, context,
          docFile, attached, smtpLog, sendOk, replies, stageLog, httpStatus,
          verifyToken, inbound, httpBody, renderOutcome>>

config == <<geminiModel, zohoCreds, metaCreds, verifyToken>>

Init ==
  /\ geminiModel \in BOOLEAN
  /\ zohoCreds \in BOOLEAN
  /\ metaCreds \in BOOLEAN
  /\ tmpFiles = <<>>
  /\ pc = [r \in Requests |-> "idle"]
  /\ aiResp = [r \in Requests |-> NoResponse]
  /\ context = [r \in Requests |-> None]
  /\ docFile = [r \in Requests |-> None]
  /\ attached = [r \in Requests |-> None]
  /\ smtpLog = [r \in Requests |-> <<>>]
  /\ sendOk = [r \in Requests |-> None]
  /\ replies = [r \in Requests |-> <<>>]
  /\ stageLog = [r \in Requests |-> <<>>]
  /\ httpStatus = [r \in Requests |-> 0]
  /\ verifyToken \in VerifyTokens
  /\ inbound = [r \in Requests |-> NoRequest]
  /\ httpBody = [r \in Requests |-> None]
  /\ renderOutcome = [r \in Requests |-> "none"]

\* ------------------------------------------------------------------------
\* webhook, POST with a text message (lines 300-365)
\* ------------------------------------------------------------------------

Append1(f, r, x) == [f EXCEPT ![r] = Append(@, x)]

\* lines 305-316 and 367-374: where a POST goes by what request.json holds.
\* "statuses_empty" is a value with the key "statuses" and an empty list:
\* line 369 indexes it with no guard, the IndexError has no handler.
AfterPost(payload) ==
  CASE payload = "text" -> "extract"
    [] payload = "statuses_empty" -> "crashed"
    [] OTHER -> "done"

\* lines 300-320: the payload carries a text message; from_number and
\* user_text are read
PostText(r) ==
  /\ pc[r] = "idle"
  /\ pc' = [pc EXCEPT ![r] = AfterPost("text")]
  /\ inbound' = [inbound EXCEPT ![r] = PostRequest("text")]
  /\ UNCHANGED <<config, httpBody, renderOutcome, tmpFiles, aiResp, context, docFile, attached,
                 smtpLog, sendOk, replies, stageLog, httpStatus>>

\* line 325: if not context
AfterExtract(ctx) == IF ctx = None THEN "reply_guidance" ELSE "render"

\* lines 322-325: context = parse_command_with_ai(user_text).  While the
\* service is silent the handler stays inside generate_content.
Extract(r) ==
  /\ pc[r] = "extract"
  /\ \E resp \in (IF geminiModel THEN AIResponses \cup {Silent} ELSE {NoResponse}) :
       /\ aiResp' = [aiResp EXCEPT ![r] = resp]
       /\ IF resp = Silent
          THEN /\ context' = context
               /\ pc' = [pc EXCEPT ![r] = "ai_blocked"]
          ELSE /\ context' = [context EXCEPT ![r] =
                                parse_command_with_ai(geminiModel, resp)]
               /\ pc' = [pc EXCEPT ![r] = AfterExtract(context'[r])]
  /\ stageLog' = Append1(stageLog, r, "extract_ai")
  /\ UNCHANGED <<config, inbound, httpBody, renderOutcome, tmpFiles, docFile,
                 attached, smtpLog, sendOk, replies, httpStatus>>

\* lines 326-329: the guidance reply, then return 200
ReplyGuidance(r) ==
  /\ pc[r] = "reply_guidance"
  /\ \E call \in ReplyCalls(metaCreds, GuidanceText) :
       replies' = Append1(replies, r, call)
  /\ stageLog' = Append1(stageLog, r, "report")
  /\ httpStatus' = [httpStatus EXCEPT ![r] = 200]
  /\ pc' = [pc EXCEPT ![r] = "done"]
  /\ UNCHANGED <<config, inbound, httpBody, renderOutcome, tmpFiles, aiResp, context, docFile, attached,
                 smtpLog, sendOk>>

\* line 334: if not doc_file
AfterRender_AlwaysDeliver(path) == "deliver"

AfterRender(path) == IF path = None THEN "reply_render_error" ELSE "deliver"

\* lines 332-334: doc_file = create_quotation_from_template(context)
Render(r) ==
  /\ pc[r] = "render"
  /\ \E outcome \in RenderOutcomes :
       /\ docFile' = [docFile EXCEPT ![r] = RenderResult(context[r][1], outcome)]
       /\ tmpFiles' = RenderFiles(tmpFiles, r, context[r][1], outcome)
       /\ pc' = [pc EXCEPT ![r] = AfterRender(docFile'[r])]
       /\ renderOutcome' = [renderOutcome EXCEPT ![r] = outcome]
  /\ stageLog' = Append1(stageLog, r, "render")
  /\ UNCHANGED <<config, inbound, httpBody, aiResp, context, attached, smtpLog, sendOk,
                 replies, httpStatus>>

\* lines 335-336: the render-failure reply, then return 200
ReplyRenderError(r) ==
  /\ pc[r] = "reply_render_error"
  /\ \E call \in ReplyCalls(metaCreds, RenderErrorText) :
       replies' = Append1(replies, r, call)
  /\ stageLog' = Append1(stageLog, r, "report")
  /\ httpStatus' = [httpStatus EXCEPT ![r] = 200]
  /\ pc' = [pc EXCEPT ![r] = "done"]
  /\ UNCHANGED <<config, inbound, httpBody, renderOutcome, tmpFiles, aiResp, context, docFile, attached,
                 smtpLog, sendOk>>

\* lines 208-222 of send_email_with_attachment: "return_false" for the two
\* early returns, "raise" when a header assignment raises, else "attach"
BuildMessage(path, creds, ctx) ==
  IF path = None THEN "return_false"
  ELSE IF ~creds THEN "return_false"
  ELSE IF HeadersRaise(ctx) THEN "raise"
  ELSE "attach"

\* lines 338-351 and 208-222: the call of send_email_with_attachment up to
\* the message being built.  An exception raised there passes through
\* webhook, which has no handler: Flask answers 500.
Deliver(r) ==
  /\ pc[r] = "deliver"
  /\ stageLog' = Append1(stageLog, r, "deliver")
  /\ LET step == BuildMessage(docFile[r], zohoCreds, context[r][1])
     IN  /\ pc' = [pc EXCEPT ![r] =
                     CASE step = "return_false" -> "report"
                       [] step = "raise" -> "crashed"
                       [] OTHER -> "attach"]
         /\ sendOk' = [sendOk EXCEPT ![r] =
                         IF step = "return_false" THEN Some(FALSE) ELSE @]
         /\ httpStatus' = [httpStatus EXCEPT ![r] =
                             IF step = "raise" THEN 500 ELSE @]
  /\ UNCHANGED <<config, inbound, httpBody, renderOutcome, tmpFiles, aiResp, context, docFile, attached,
                 smtpLog, replies>>

\* lines 224-235: open and read the file; a missing file or a read error is
\* the attach error
Attach(r) ==
  /\ pc[r] = "attach"
  /\ \E io \in {"ok", "error"} :
       IF io = "ok" /\ docFile[r][1] \in DOMAIN tmpFiles
       THEN /\ attached' = [attached EXCEPT ![r] = Some(tmpFiles[docFile[r][1]])]
            /\ pc' = [pc EXCEPT ![r] = "smtp587"]
            /\ sendOk' = sendOk
       ELSE /\ attached' = attached
            /\ pc' = [pc EXCEPT ![r] = "report"]
            /\ sendOk' = [sendOk EXCEPT ![r] = Some(FALSE)]
  /\ UNCHANGED <<config, inbound, httpBody, renderOutcome, tmpFiles, aiResp, context, docFile, smtpLog,
                 replies, stageLog, httpStatus>>

\* How one SMTP session can go: the server accepts the message and the
\* session closes; an exception before the message is accepted; the
\* message is accepted and leaving the with block raises (QUIT not
\* answered with 221); the server does not answer and the socket timeout
\* of 20 s (lines 241, 255) raises.
SmtpOutcomes == {"accepted", "raised", "accepted_then_raised", "timed_out"}

Session(port, outcome) ==
  [port |-> port,
   accepted |-> outcome \in {"accepted", "accepted_then_raised"},
   raised |-> outcome # "accepted"]

\* lines 248-250: return True, or fall through to the second attempt
After587_Always465(outcome) == "smtp465"

After587(outcome) == IF outcome = "accepted" THEN "report" ELSE "smtp465"

\* lines 237-250: STARTTLS on 587
Smtp587(r) ==
  /\ pc[r] = "smtp587"
  /\ \E outcome \in SmtpOutcomes :
       /\ smtpLog' = Append1(smtpLog, r, Session(587, outcome))
       /\ pc' = [pc EXCEPT ![r] = After587(outcome)]
       /\ sendOk' = [sendOk EXCEPT ![r] =
                       IF After587(outcome) = "report" THEN Some(TRUE) ELSE @]
  /\ UNCHANGED <<config, inbound, httpBody, renderOutcome, tmpFiles, aiResp, context, docFile, attached,
                 replies, stageLog, httpStatus>>

\* lines 252-262: SSL on 465; the return value is held while finally runs
Smtp465(r) ==
  /\ pc[r] = "smtp465"
  /\ \E outcome \in SmtpOutcomes :
       /\ smtpLog' = Append1(smtpLog, r, Session(465, outcome))
       /\ sendOk' = [sendOk EXCEPT ![r] = Some(outcome = "accepted")]
  /\ pc' = [pc EXCEPT ![r] = "cleanup"]
  /\ UNCHANGED <<config, inbound, httpBody, renderOutcome, tmpFiles, aiResp, context, docFile, attached,
                 replies, stageLog, httpStatus>>

\* lines 263-269: the finally clause of the second try block
Cleanup(r) ==
  /\ pc[r] = "cleanup"
  /\ tmpFiles' = Removed(tmpFiles, docFile[r][1])
  /\ pc' = [pc EXCEPT ![r] = "report"]
  /\ UNCHANGED <<config, inbound, httpBody, renderOutcome, aiResp, context, docFile, attached, smtpLog,
                 sendOk, replies, stageLog, httpStatus>>

\* lines 353-363: the text chosen by ok
ReportText_IgnoresOk(ok, ctx) == SuccessText(ctx)

ReportText(ok, ctx) == IF ok THEN SuccessText(ctx) ELSE EmailFailedText(ctx)

\* lines 353-365: the outcome reply, then return 200
Report(r) ==
  /\ pc[r] = "report"
  /\ \E call \in ReplyCalls(metaCreds, ReportText(sendOk[r][1], context[r][1])) :
       replies' = Append1(replies, r, call)
  /\ stageLog' = Append1(stageLog, r, "report")
  /\ httpStatus' = [httpStatus EXCEPT ![r] = 200]
  /\ pc' = [pc EXCEPT ![r] = "done"]
  /\ UNCHANGED <<config, inbound, httpBody, renderOutcome, tmpFiles, aiResp, context, docFile, attached,
                 smtpLog, sendOk>>

\* the payloads of a POST that carry no text message: no entry/changes, a
\* message of another type, a status update, a change with neither messages
\* nor statuses, a statuses list that is empty
OtherPayloads == {"no_entry", "non_text", "status", "neither", "statuses_empty"}

\* lines 300-316 and 367-374: a POST without a text message returns at once
PostOther(r) ==
  /\ pc[r] = "idle"
  /\ \E payload \in OtherPayloads :
       /\ inbound' = [inbound EXCEPT ![r] = PostRequest(payload)]
       /\ pc' = [pc EXCEPT ![r] = AfterPost(payload)]
       /\ httpStatus' = [httpStatus EXCEPT ![r] =
                           IF AfterPost(payload) = "crashed" THEN 500 ELSE 200]
  /\ UNCHANGED <<config, httpBody, renderOutcome, tmpFiles, aiResp, context,
                 docFile, attached, smtpLog, sendOk, replies, stageLog>>

\* ------------------------------------------------------------------------
\* webhook, GET (lines 286-298)
\* ------------------------------------------------------------------------

Subscribe == <<"s", "u", "b", "s", "c", "r", "i", "b", "e">>

\* hub.mode: absent, "subscribe", another word
GetModes == {None, Some(Subscribe), Some(<<"x">>)}

\* hub.verify_token: absent, empty, the configured one, another one
GetTokens == {None, Some(<<>>), Some(TokA), Some(TokB)}

Challenge == <<"4", "2">>

\* hub.challenge: absent or a string
GetChallenges == {None, Some(Challenge)}

\* the truth value of request.args.get(...): None and "" are false
Truthy(arg) == arg # None /\ arg[1] # <<>>

MismatchBody == <<"Verification token mismatch">>

BadVerifyBody == <<"Bad verify request">>

\* lines 292-298, with the token comparison left out
VerifyResponse_NoTokenCheck(mode, token, challenge, configured) ==
  IF mode = Some(Subscribe) /\ Truthy(token) /\ Truthy(challenge)
  THEN [status |-> 200, body |-> challenge[1]]
  ELSE [status |-> 400, body |-> BadVerifyBody]

\* lines 292-298: the response to a verification request
VerifyResponse(mode, token, challenge, configured) ==
  IF mode = Some(Subscribe) /\ Truthy(token) /\ Truthy(challenge)
  THEN IF token = configured
       THEN [status |-> 200, body |-> challenge[1]]
       ELSE [status |-> 403, body |-> MismatchBody]
  ELSE [status |-> 400, body |-> BadVerifyBody]

\* lines 286-298: GET /webhook
VerifyGet(r) ==
  /\ pc[r] = "idle"
  /\ \E mode \in GetModes, token \in GetTokens, challenge \in GetChallenges :
       LET resp == VerifyResponse(mode, token, challenge, verifyToken)
       IN  /\ inbound' = [inbound EXCEPT ![r] = GetRequest(mode, token, challenge)]
           /\ httpStatus' = [httpStatus EXCEPT ![r] = resp.status]
           /\ httpBody' = [httpBody EXCEPT ![r] = Some(resp.body)]
  /\ pc' = [pc EXCEPT ![r] = "done"]
  /\ UNCHANGED <<config, renderOutcome, tmpFiles, aiResp, context, docFile,
                 attached, smtpLog, sendOk, replies, stageLog>>

\* one step of the handler of request r
Handler(r) ==
  \/ VerifyGet(r)
  \/ PostOther(r)
  \/ PostText(r)
  \/ Extract(r)
  \/ ReplyGuidance(r)
  \/ Render(r)
  \/ ReplyRenderError(r)
  \/ Deliver(r)
  \/ Attach(r)
  \/ Smtp587(r)
  \/ Smtp465(r)
  \/ Cleanup(r)
  \/ Report(r)

Next == \E r \in Requests : Handler(r)

Spec == Init /\ [][Next]_vars

\* ------------------------------------------------------------------------
\* parse_command_with_ai and the file name of create_quotation_from_template
\* applied to enumerated inputs
\* ------------------------------------------------------------------------

\* Longest customer name enumerated.
MaxNameLen == 3

\* Most decimals of an enumerated rate.
MaxDecimals == 3

\* characters a customer name is made of: kept ones, separators, dropped ones
NameAlphabet == {"R", "a", "7", " ", "_", "-", "/", "\t"}

\* all strings over alphabet of length n
StringsOfLen(alphabet, n) == [1..n -> alphabet]

NameInputs == UNION {StringsOfLen(NameAlphabet, n) : n \in 1..MaxNameLen}

QuantityInputs == {<<"1">>, <<"3">>, <<"1", "2">>}

RateIntParts ==
  {<<"0">>, <<"7">>, <<"1", "0", "0", "0">>, <<"1", "2", "3", "4", "5">>}

RateInputs ==
  RateIntParts
  \cup {ip \o <<".">> \o f :
          ip \in RateIntParts,
          f \in UNION {StringsOfLen(Digits, d) : d \in 1..MaxDecimals}}
  \cup {<<"2", "5", ",", "0", "0", "0", ".", "5">>,
        <<"R", "s", " ", "9", "9", "9", ".", "9", "9">>}

\* mant / 10^dec lies exactly between two cents: the float nearest to it is
\* printed up or down as its binary expansion falls
IsTie(mant, dec) == dec > 2 /\ 2 * (mant % Pow10(dec - 2)) = Pow10(dec - 2)

\* the objects json.loads can give here; a rate or a total that is an exact
\* tie is left out
FnObjects ==
  {[BaseData EXCEPT !.customer_name = n] : n \in NameInputs}
  \cup {[BaseData EXCEPT !.quantity = p[1], !.rate = p[2]] :
          p \in {y \in QuantityInputs \X RateInputs :
                   /\ ~IsTie(RateNum(y[2]).mant, RateNum(y[2]).dec)
                   /\ ~IsTie(QtyNum(y[1]) * RateNum(y[2]).mant, RateNum(y[2]).dec)}}

FnInit ==
  /\ geminiModel = TRUE
  /\ zohoCreds = TRUE
  /\ metaCreds = TRUE
  /\ verifyToken = None
  /\ tmpFiles = <<>>
  /\ pc = [r \in Requests |-> IF r = 1 THEN "fn_start" ELSE "idle"]
  /\ \E d \in FnObjects :
       aiResp = [r \in Requests |->
                   IF r = 1 THEN [kind |-> "json", data |-> d] ELSE NoResponse]
  /\ context = [r \in Requests |-> None]
  /\ docFile = [r \in Requests |-> None]
  /\ attached = [r \in Requests |-> None]
  /\ smtpLog = [r \in Requests |-> <<>>]
  /\ sendOk = [r \in Requests |-> None]
  /\ replies = [r \in Requests |-> <<>>]
  /\ stageLog = [r \in Requests |-> <<>>]
  /\ httpStatus = [r \in Requests |-> 0]
  /\ inbound = [r \in Requests |-> NoRequest]
  /\ httpBody = [r \in Requests |-> None]
  /\ renderOutcome = [r \in Requests |-> "none"]

\* context = parse_command_with_ai(user_text) on the enumerated answer
FnParse ==
  /\ pc[1] = "fn_start"
  /\ context' = [context EXCEPT ![1] = parse_command_with_ai(geminiModel, aiResp[1])]
  /\ pc' = [pc EXCEPT ![1] = IF context'[1] = None THEN "fn_rejected" ELSE "fn_parsed"]
  /\ UNCHANGED <<config, inbound, httpBody, renderOutcome, tmpFiles, aiResp,
                 docFile, attached, smtpLog, sendOk, replies, stageLog,
                 httpStatus>>

\* lines 193-195: the path create_quotation_from_template saves to
FnPath ==
  /\ pc[1] = "fn_parsed"
  /\ docFile' = [docFile EXCEPT ![1] = RenderResult(context[1][1], "saved")]
  /\ pc' = [pc EXCEPT ![1] = "fn_named"]
  /\ UNCHANGED <<config, inbound, httpBody, renderOutcome, tmpFiles, aiResp,
                 context, attached, smtpLog, sendOk, replies, stageLog,
                 httpStatus>>

FnNext == FnParse \/ FnPath

FnSpec == FnInit /\ [][FnNext]_vars

\* ------------------------------------------------------------------------
\* Properties
\* ------------------------------------------------------------------------

\* the kinds of the replies sent for r
ReplyKinds(r) == {replies[r][i].text.kind : i \in 1..Len(replies[r])}

Stages(r) == {stageLog[r][i] : i \in 1..Len(stageLog[r])}

\* r's own document is in /tmp
OwnFileExists(r) ==
  \E p \in DOMAIN tmpFiles : tmpFiles[p].owner = r

\* C1: once create_quotation_from_template has written the document of a
\* request, the file is gone when the outcome notification of the request
\* is sent, on every delivery path.
C1_DocumentDeletedBeforeReport ==
  \A r \in Requests :
    (docFile[r] # None /\ replies[r] # <<>>) => ~OwnFileExists(r)

\* C2: the guidance message is sent only after a rule-based extraction has
\* been attempted on the text, following the failed AI extraction.
C2_RuleBasedBeforeGuidance ==
  \A r \in Requests :
    "guidance" \in ReplyKinds(r) =>
      \E i, j \in 1..Len(stageLog[r]) :
        /\ i < j
        /\ stageLog[r][i] = "extract_ai"
        /\ stageLog[r][j] = "extract_rule"

\* C3: under every interleaving of two requests, the data a request attaches
\* is the document rendered from its own quotation, and the file a request
\* saved is there when the request comes to attach it, as it is for a
\* request running alone.
C3_ParallelSafe ==
  \A r \in Requests :
    /\ attached[r] # None => attached[r][1].ctx = context[r][1]
    /\ pc[r] = "attach" => docFile[r][1] \in DOMAIN tmpFiles

\* C4: the handler of a text message never ends in an unhandled fault, and
\* when it has ended exactly one outcome notification has been issued.
C4_OneOutcomeNoFault ==
  \A r \in Requests :
    inbound[r] = PostRequest("text") =>
      /\ pc[r] # "crashed"
      /\ httpStatus[r] # 0 => (httpStatus[r] = 200 /\ Len(replies[r]) = 1)

\* a syntactically valid address: one "@" with a non-empty local part and a
\* dotted domain, no whitespace
IsValidEmail(s) ==
  LET at == IndexOf(s, "@")
  IN  /\ CountChar(s, "@") = 1
      /\ at > 1
      /\ \A i \in 1..Len(s) : s[i] \notin Whitespace
      /\ \E i \in (at + 2)..(Len(s) - 1) : s[i] = "."

\* C5: no record whose email is blank or not a syntactically valid address
\* becomes a quotation: there is never a context, a document or an SMTP
\* session for it.
C5_InvalidEmailNeverQuoted ==
  \A r \in Requests :
    context[r] # None => IsValidEmail(context[r][1]["email"])

\* C6: every record parse_command_with_ai returns has customer_name and
\* product non-blank, quantity an integer of at least 1 and rate a
\* non-negative number.
C6_RecordFieldsValid ==
  \A r \in Requests :
    context[r] # None =>
      /\ ~IsBlank(context[r][1]["customer_name"])
      /\ ~IsBlank(context[r][1]["product"])
      /\ DigitsToNat(context[r][1]["quantity"]) >= 1
      /\ RateParses(context[r][1]["rate"])

\* C7 as stated: the message is submitted to the email transport at most
\* once per request.
C7_SingleSubmission ==
  \A r \in Requests : Len(smtpLog[r]) <= 1

\* C7 as amended: at most two submissions per request, the first over
\* STARTTLS:587 and the second over SSL:465 only when the first raised; once
\* the second has been made the outcome is settled by it and nothing further
\* is submitted.
C7_AtMostTwoSubmissions ==
  \A r \in Requests :
    /\ Len(smtpLog[r]) <= 2
    /\ Len(smtpLog[r]) >= 1 => smtpLog[r][1].port = 587
    /\ Len(smtpLog[r]) = 2 =>
         /\ smtpLog[r][1].raised
         /\ smtpLog[r][2].port = 465
         /\ sendOk[r] = Some(~smtpLog[r][2].raised)
    /\ (Len(smtpLog[r]) = 1 /\ smtpLog[r][1].raised) => pc[r] = "smtp465"

\* both submissions were made and failed, and the failure has been reported
C7_Witness ==
  \E r \in Requests :
    /\ pc[r] = "done"
    /\ Len(smtpLog[r]) = 2
    /\ smtpLog[r][2].raised
    /\ ReplyKinds(r) = {"email_failed"}

\* a required field is absent from the extracted object or blank in it
LacksRequiredField(data) ==
  \E k \in {"customer_name", "product", "quantity", "rate", "email"} :
    k \notin DOMAIN data \/ IsBlank(data[k])

\* C8: when the extracted fields lack a required field, no document is
\* rendered and no delivery is attempted for the request, and the one reply
\* sent is the fixed guidance message.
C8_MissingFieldGuidance ==
  \A r \in Requests :
    (aiResp[r].kind = "json" /\ LacksRequiredField(aiResp[r].data)) =>
      /\ context[r] = None
      /\ Stages(r) \subseteq {"extract_ai", "report"}
      /\ docFile[r] = None /\ ~OwnFileExists(r)
      /\ attached[r] = None /\ smtpLog[r] = <<>>
      /\ \A i \in 1..Len(replies[r]) : replies[r][i].text = GuidanceText
      /\ pc[r] = "done" => Len(replies[r]) = 1

\* a message without an email address has been answered
C8_Witness ==
  \E r \in Requests :
    /\ aiResp[r].kind = "json"
    /\ "email" \notin DOMAIN aiResp[r].data
    /\ pc[r] = "done"
    /\ replies[r][1].text = GuidanceText

StageRank(st) ==
  CASE st = "extract_ai" -> 1 [] st = "render" -> 2 [] st = "deliver" -> 3
    [] st = "report" -> 4 [] OTHER -> 0

\* C9: the stages of a request run in the order extract, render, deliver,
\* report, each at most once; render runs only after extraction gave a
\* record, deliver only after render gave a file, and after a failed stage
\* the only stage that runs is report.
C9_StagesDownstreamOnce ==
  \A r \in Requests :
    LET log == stageLog[r]
    IN  /\ \A i \in 1..Len(log) : StageRank(log[i]) > 0
        /\ \A i, j \in 1..Len(log) : i < j => StageRank(log[i]) < StageRank(log[j])
        /\ Len(log) >= 1 => log[1] = "extract_ai"
        /\ "render" \in Stages(r) => context[r] # None
        /\ "deliver" \in Stages(r) => ("render" \in Stages(r) /\ docFile[r] # None)
        /\ (Len(log) >= 2 /\ context[r] = None) => log = <<"extract_ai", "report">>
        /\ (Len(log) >= 3 /\ docFile[r] = None) =>
             log = <<"extract_ai", "render", "report">>
        /\ "report" \in Stages(r) => pc[r] = "done"

\* one request went through all four stages and another went from a failed
\* render straight to the report
C9_Witness ==
  \E r1, r2 \in Requests :
    /\ stageLog[r1] = <<"extract_ai", "render", "deliver", "report">>
    /\ stageLog[r2] = <<"extract_ai", "render", "report">>

\* some SMTP session of r accepted the message without raising
Delivered(r) ==
  \E i \in 1..Len(smtpLog[r]) : smtpLog[r][i].accepted /\ ~smtpLog[r][i].raised

\* C10: the text of a reply follows the classification of the outcome:
\* guidance exactly for a failed extraction or validation, the document
\* error exactly for a failed render, the created-but-not-sent text naming
\* the recipient exactly for a failed delivery, the success text exactly
\* when delivery succeeded.
C10_TextFollowsOutcome ==
  \A r \in Requests :
    \A i \in 1..Len(replies[r]) :
      LET t == replies[r][i].text
      IN  /\ t.kind = "guidance" <=> context[r] = None
          /\ t.kind = "render_error" <=> (context[r] # None /\ docFile[r] = None)
          /\ t.kind = "email_failed" <=> sendOk[r] = Some(FALSE)
          /\ t.kind = "email_failed" => t.email = context[r][1]["email"]
          /\ t.kind = "success" <=> sendOk[r] = Some(TRUE)
          /\ t.kind = "success" => (Delivered(r) /\ t.email = context[r][1]["email"])

\* a delivery failure and a success have both been reported
C10_Witness ==
  \E r1, r2 \in Requests :
    /\ ReplyKinds(r1) = {"email_failed"}
    /\ replies[r1][1].text.email = RajuMail
    /\ ~Delivered(r1)
    /\ ReplyKinds(r2) = {"success"}

\* C11: an external dependency that does not respond cannot stall a request:
\* a handler that has begun and has not ended always has a step to take (a
\* silent AI call or SMTP server is cut off by a timeout), so the request
\* can go on to its reported outcome.
C11_NoStall ==
  \A r \in Requests :
    pc[r] \notin {"idle", "done", "crashed"} => ENABLED Handler(r)

\* the state part of C12
TemplateFailureState(r) ==
  renderOutcome[r] = "template_error" =>
    /\ docFile[r] = None
    /\ ~OwnFileExists(r)
    /\ "deliver" \notin Stages(r)
    /\ attached[r] = None /\ smtpLog[r] = <<>>
    /\ pc[r] \in {"reply_render_error", "done"}
    /\ \A i \in 1..Len(replies[r]) : replies[r][i].text = RenderErrorText
    /\ pc[r] = "done" => Len(replies[r]) = 1

\* the step part of C12: the call in which the template does not load
\* writes nothing to /tmp
TemplateFailureStep(r) ==
  (pc[r] = "render" /\ renderOutcome'[r] = "template_error") =>
    tmpFiles' = tmpFiles

\* C12: when the template cannot be loaded, create_quotation_from_template
\* returns None and has written no file, complete or partial, and the
\* request goes to the render-failure reply without a delivery attempt.
C12_TemplateFailure ==
  /\ [](\A r \in Requests : TemplateFailureState(r))
  /\ [][\A r \in Requests : TemplateFailureStep(r)]_vars

\* a request whose template did not load has been answered
C12_Witness ==
  \E r \in Requests :
    /\ renderOutcome[r] = "template_error"
    /\ pc[r] = "done"
    /\ replies[r] # <<>> /\ replies[r][1].text = RenderErrorText

\* the amount in cents that a money string of the record shows, read as the
\* rate parser reads it
CentsShown(str) == RoundCents(RateNum(str).mant, RateNum(str).dec)

\* C13: the total a record carries equals, to the cent, its quantity times
\* the rate it carries after normalization.
C13_TotalIsQuantityTimesRate ==
  context[1] # None =>
    CentsShown(context[1][1]["total"]) =
      DigitsToNat(context[1][1]["quantity"]) * CentsShown(context[1][1]["rate"])

\* C14: the rate parser applied to rate_formatted gives the original rate
\* rounded to two decimals.
C14_RateRoundTrip ==
  context[1] # None =>
    LET shown == context[1][1]["rate_formatted"]
        orig  == RateNum(aiResp[1].data["rate"])
    IN  /\ RateParses(shown)
        /\ RateNum(shown).dec = 2
        /\ RateNum(shown).mant = RoundCents(orig.mant, orig.dec)

\* a rate of three decimals was rounded and shown with thousands grouping
C14_Witness ==
  /\ pc[1] = "fn_parsed"
  /\ RateNum(aiResp[1].data["rate"]).dec = 3
  /\ RateNum(aiResp[1].data["rate"]).mant % 10 # 0
  /\ CountChar(context[1][1]["rate_formatted"], ",") = 1

\* the part of the path between "Quotation_" and "_<date>.docx"
NamePart(path) == SubSeq(path, 3, Len(path) - Len(Today) - 2)

\* C15: the name part of the file name holds only alphanumerics, space,
\* underscore and hyphen, has no whitespace at either end, and is the
\* placeholder whenever sanitizing and trimming leaves nothing.
C15_FileNameClean ==
  (pc[1] = "fn_named" /\ docFile[1] # None) =>
    LET n    == NamePart(docFile[1][1])
        kept == SelectSeq(aiResp[1].data["customer_name"], IsSafeChar)
    IN  /\ n # <<>>
        /\ \A i \in 1..Len(n) : n[i] \in Letters \cup Digits \cup {" ", "_", "-"}
        /\ n[1] \notin Whitespace
        /\ n[Len(n)] \notin Whitespace
        /\ IsBlank(kept) => n = <<"C", "u", "s", "t", "o", "m", "e", "r">>

\* the number of sessions of r in which the server accepted the message
AcceptedCount(r) ==
  Cardinality({i \in 1..Len(smtpLog[r]) : smtpLog[r][i].accepted})

\* C16: send_email_with_attachment returns True exactly when one SMTP
\* attempt accepted the message; the 465 attempt comes only after the 587
\* attempt raised; no SMTP session is opened when the path is empty, the
\* credentials are missing or the attachment cannot be read; the success
\* notification is sent only when the function returned True.
C16_TrueIffOneAccepted ==
  \A r \in Requests :
    /\ sendOk[r] # None => (sendOk[r] = Some(TRUE) <=> AcceptedCount(r) = 1)
    /\ \A i \in 1..Len(smtpLog[r]) :
         smtpLog[r][i].port = 465 =>
           /\ i = 2
           /\ smtpLog[r][1].port = 587
           /\ smtpLog[r][1].raised
    /\ (sendOk[r] # None /\ (docFile[r] = None \/ ~zohoCreds \/ attached[r] = None))
         => smtpLog[r] = <<>>
    /\ "success" \in ReplyKinds(r) => sendOk[r] = Some(TRUE)

\* r was a verification request
IsGet(r) == inbound[r].method = "GET"

\* C17: a GET is answered 200 with the challenge only when hub.mode is
\* "subscribe" and hub.verify_token equals the configured token; a
\* subscription request whose token does not match is answered 403; a
\* request lacking mode, token or challenge is answered 400; with no verify
\* token configured no GET is answered with the challenge.
C17_Verification ==
  \A r \in Requests :
    IsGet(r) =>
      LET q == inbound[r]
          lacking == q.mode = None \/ ~Truthy(q.token) \/ ~Truthy(q.challenge)
      IN  /\ httpStatus[r] \in {200, 403, 400}
          /\ httpStatus[r] = 200 =>
               /\ q.mode = Some(Subscribe)
               /\ verifyToken # None
               /\ q.token = verifyToken
               /\ httpBody[r] = q.challenge
          /\ httpBody[r] = q.challenge => httpStatus[r] = 200
          /\ (q.mode = Some(Subscribe) /\ ~lacking /\ q.token # verifyToken)
               => httpStatus[r] = 403
          /\ lacking => httpStatus[r] = 400
          /\ (q.mode = Some(Subscribe) /\ ~lacking /\ q.token = verifyToken)
               => httpStatus[r] = 200

\* one verification was answered with the challenge and another, carrying
\* a different token, was refused
C17_Witness ==
  \E r1, r2 \in Requests :
    /\ IsGet(r1) /\ httpStatus[r1] = 200 /\ httpBody[r1] = Some(Challenge)
    /\ IsGet(r2) /\ httpStatus[r2] = 403 /\ inbound[r2].token = Some(TokB)

\* C18: a POST that carries no text message runs no pipeline stage (no AI
\* call, no document file, no email, no WhatsApp reply) and is answered
\* with HTTP 200.
C18_NoTextNoPipeline ==
  \A r \in Requests :
    (inbound[r].method = "POST" /\ inbound[r].payload # "text") =>
      /\ stageLog[r] = <<>>
      /\ aiResp[r] = NoResponse
      /\ docFile[r] = None /\ ~OwnFileExists(r)
      /\ smtpLog[r] = <<>>
      /\ replies[r] = <<>>
      /\ httpStatus[r] = 200

====
